---- MODULE Spec2Model ----
(***************************************************************************)
(* State-machine model of BondingCurveModel (src/bondingCurveModel.js):    *)
(* the bonding-curve engine's constructor, quotes (calculateBuyTokens,     *)
(* calculateSellTokens), executions (executeBuy, executeSell) and the      *)
(* milestone check (checkMilestones, burnLiquidity).                       *)
(*                                                                         *)
(* All quantities of the program are bignumber.js values.  They are        *)
(* modelled as sign / coefficient / decimal-places records with the        *)
(* library's arithmetic: plus, minus and times are exact, div keeps        *)
(* DecimalPlaces fractional digits and truncates toward zero (ROUND_DOWN), *)
(* pow throws on a non-integer exponent, and NaN, +-Infinity and the       *)
(* signed zero behave as in the library.                                   *)
(***************************************************************************)
EXTENDS Integers, Sequences, FiniteSets, TLC

(***************************************************************************)
(* Bounds of the model.                                                    *)
(***************************************************************************)
\* Fractional digits kept by div.  The source configures DECIMAL_PLACES: 18;
\* the model keeps fewer so that coefficients stay within 32-bit integers.
DecimalPlaces == 4
\* Largest coefficient the model represents; a call whose arithmetic needs a
\* larger one is outside the model (the action is disabled).
MaxMantissa == 1000000000
\* Number of calls made on one engine instance.
MaxOps == 4

(***************************************************************************)
(* bignumber.js values.                                                    *)
(*   k = "fin": the number s * m * 10^(-d), m >= 0, no trailing zero in m  *)
(*   k = "inf": s * Infinity        k = "nan": NaN                         *)
(*   k = "ovf": a value the model cannot represent (see MaxMantissa)       *)
(***************************************************************************)
NaN == [k |-> "nan", s |-> 1, m |-> 0, d |-> 0]

Ovf == [k |-> "ovf", s |-> 1, m |-> 0, d |-> 0]

Inf(sgn) == [k |-> "inf", s |-> sgn, m |-> 0, d |-> 0]

Zero(sgn) == [k |-> "fin", s |-> sgn, m |-> 0, d |-> 0]

RECURSIVE Pow10(_)
Pow10(n) == IF n <= 0 THEN 1 ELSE 10 * Pow10(n - 1)

\* a * 10^n for a >= 0, n >= 0, or -1 when it exceeds MaxMantissa.
RECURSIVE Shift(_, _)
Shift(a, n) ==
  IF a = 0 \/ n = 0 THEN (IF a > MaxMantissa THEN -1 ELSE a)
  ELSE IF a > MaxMantissa \div 10 THEN -1
  ELSE Shift(a * 10, n - 1)

\* The canonical record of sgn * mant * 10^(-dp): trailing zeros stripped.
RECURSIVE Norm(_, _, _)
Norm(sgn, mant, dp) ==
  IF mant = 0 THEN Zero(sgn)
  ELSE IF mant % 10 = 0 THEN Norm(sgn, mant \div 10, dp - 1)
  ELSE IF mant > MaxMantissa THEN Ovf
  ELSE [k |-> "fin", s |-> sgn, m |-> mant, d |-> dp]

\* new BigNumber('<mant>e-<dp>') and its negation.
Dec(mant, dp) == Norm(1, mant, dp)

Negated(x) == IF x.k \in {"nan", "ovf"} THEN x ELSE [x EXCEPT !.s = -x.s]

One == Dec(1, 0)

IsZero(x) == x.k = "fin" /\ x.m = 0

IsFinite(x) == x.k = "fin"

\* BigNumber.prototype.isInteger
IsInteger(x) == x.k = "fin" /\ x.d <= 0

\* Comparison of two finite magnitudes m1 * 10^(-d1) and m2 * 10^(-d2):
\* -1, 0 or 1.  A side whose alignment exceeds MaxMantissa is the larger one.
CmpMag(m1, d1, m2, d2) ==
  IF m1 = 0 \/ m2 = 0
    THEN (IF m1 = m2 THEN 0 ELSE IF m1 = 0 THEN -1 ELSE 1)
  ELSE IF d1 >= d2
    THEN LET b == Shift(m2, d1 - d2)
         IN IF b = -1 \/ b > m1 THEN -1 ELSE IF b = m1 THEN 0 ELSE 1
    ELSE LET a == Shift(m1, d2 - d1)
         IN IF a = -1 \/ a > m2 THEN 1 ELSE IF a = m2 THEN 0 ELSE -1

\* compare(x, y) of the library for two values that are not NaN.
Cmp(x, y) ==
  IF x.k = "inf" \/ y.k = "inf"
    THEN LET vx == IF x.k = "inf" THEN x.s ELSE 0
             vy == IF y.k = "inf" THEN y.s ELSE 0
         IN IF vx = vy THEN 0 ELSE IF vx < vy THEN -1 ELSE 1
  ELSE IF IsZero(x) /\ IsZero(y) THEN 0
  ELSE IF IsZero(x) THEN -y.s
  ELSE IF IsZero(y) THEN x.s
  ELSE IF x.s # y.s THEN x.s
  ELSE x.s * CmpMag(x.m, x.d, y.m, y.d)

Comparable(x, y) == x.k \in {"fin", "inf"} /\ y.k \in {"fin", "inf"}

\* gt, gte, lt, lte, eq: false whenever an operand is NaN.
Gt(x, y) == Comparable(x, y) /\ Cmp(x, y) = 1

Gte(x, y) == Comparable(x, y) /\ Cmp(x, y) >= 0

Lt(x, y) == Comparable(x, y) /\ Cmp(x, y) = -1

Lte(x, y) == Comparable(x, y) /\ Cmp(x, y) <= 0

\* BigNumber.prototype.plus: exact.
Plus(x, y) ==
  IF x.k = "ovf" \/ y.k = "ovf" THEN Ovf
  ELSE IF x.k = "nan" \/ y.k = "nan" THEN NaN
  ELSE IF x.k = "inf" \/ y.k = "inf"
    THEN (IF x.k = "inf" /\ y.k = "inf"
            THEN (IF x.s = y.s THEN x ELSE NaN)
            ELSE IF x.k = "inf" THEN x ELSE y)
  ELSE IF IsZero(x) /\ IsZero(y) THEN (IF x.s = y.s THEN x ELSE Zero(1))
  ELSE IF IsZero(x) THEN y
  ELSE IF IsZero(y) THEN x
  ELSE LET dp == IF x.d >= y.d THEN x.d ELSE y.d
           a  == Shift(x.m, dp - x.d)
           b  == Shift(y.m, dp - y.d)
           v  == x.s * a + y.s * b
       IN IF a = -1 \/ b = -1 THEN Ovf
          ELSE IF v = 0 THEN Zero(1)
          ELSE IF v < 0 THEN Norm(-1, -v, dp)
          ELSE Norm(1, v, dp)

\* BigNumber.prototype.minus: exact.
Minus(x, y) == Plus(x, Negated(y))

\* BigNumber.prototype.times: exact; the sign is the product of the signs.
Times(x, y) ==
  IF x.k = "ovf" \/ y.k = "ovf" THEN Ovf
  ELSE IF x.k = "nan" \/ y.k = "nan" THEN NaN
  ELSE IF x.k = "inf" \/ y.k = "inf"
    THEN (IF IsZero(x) \/ IsZero(y) THEN NaN ELSE Inf(x.s * y.s))
  ELSE IF x.m = 0 \/ y.m = 0 THEN Zero(x.s * y.s)
  ELSE IF x.m > MaxMantissa \div y.m THEN Ovf
  ELSE Norm(x.s * y.s, x.m * y.m, x.d + y.d)

\* One step of long division: the next digit of r / b and the remainder,
\* for 0 <= r < b, computed as ten additions of r so that 10 * r is never
\* formed.  acc < b throughout.
RECURSIVE DigitStep(_, _, _, _, _)
DigitStep(r, b, acc, cnt, i) ==
  IF i = 0 THEN <<cnt, acc>>
  ELSE IF acc + r >= b THEN DigitStep(r, b, acc + r - b, cnt + 1, i - 1)
  ELSE DigitStep(r, b, acc + r, cnt, i - 1)

\* floor(q + r / b) extended by t more decimal digits, as [q, left]: the
\* digits produced and the number of (zero) digits not produced because the
\* remainder vanished; q = -1 when the coefficient exceeds MaxMantissa.
RECURSIVE LongDiv(_, _, _, _)
LongDiv(q, r, b, t) ==
  IF t = 0 \/ r = 0 THEN [q |-> q, left |-> t]
  ELSE LET ds == DigitStep(r, b, 0, 0, 10)
       IN IF q > (MaxMantissa - ds[1]) \div 10 THEN [q |-> -1, left |-> 0]
          ELSE LongDiv(10 * q + ds[1], ds[2], b, t - 1)

\* BigNumber.prototype.div with DECIMAL_PLACES = DecimalPlaces and
\* ROUNDING_MODE = ROUND_DOWN: the quotient truncated toward zero.
Div(x, y) ==
  IF x.k = "ovf" \/ y.k = "ovf" THEN Ovf
  ELSE IF x.k = "nan" \/ y.k = "nan" THEN NaN
  ELSE IF x.k = "inf" /\ y.k = "inf" THEN NaN
  ELSE IF IsZero(x) /\ IsZero(y) THEN NaN
  ELSE IF IsZero(x) \/ y.k = "inf" THEN Zero(x.s * y.s)
  ELSE IF IsZero(y) \/ x.k = "inf" THEN Inf(x.s * y.s)
  ELSE LET t == DecimalPlaces + y.d - x.d
       IN IF t >= 0
            THEN LET r == LongDiv(x.m \div y.m, x.m % y.m, y.m, t)
                 IN IF r.q = -1 THEN Ovf
                    ELSE Norm(x.s * y.s, r.q, DecimalPlaces - r.left)
            ELSE IF -t > 9 THEN Zero(x.s * y.s)
            ELSE Norm(x.s * y.s, (x.m \div y.m) \div Pow10(-t), DecimalPlaces)

\* x^n for an integer n >= 0, exact (POW_PRECISION is 0).
RECURSIVE PowInt(_, _)
PowInt(x, n) == IF n = 0 THEN One ELSE Times(x, PowInt(x, n - 1))

\* BigNumber.prototype.pow throws '[BigNumber Error] Exponent not an
\* integer' for a finite exponent that is not an integer.
PowThrows(n) == n.k = "fin" /\ ~IsInteger(n)

\* BigNumber.prototype.pow for an exponent it accepts: x^|n| by repeated
\* multiplication, inverted by div for a negative n.  The exponents of the
\* program are reserveRatio and 1 / reserveRatio, which are finite.
Pow(x, n) ==
  IF x.k = "ovf" \/ n.k = "ovf" THEN Ovf
  ELSE IF n.k # "fin" THEN NaN
  ELSE LET e == Shift(n.m, -n.d)
       IN IF e = -1 \/ e > 32 THEN Ovf
          ELSE IF n.s = -1 /\ e > 0 THEN Div(One, PowInt(x, e))
          ELSE PowInt(x, e)

(***************************************************************************)
(* The engine.  `this` is the instance's fields: reserveRatio, fee,        *)
(* currentSupply, poolBalance.                                             *)
(***************************************************************************)
\* A field of a call record that the call did not produce.
Undef == [k |-> "undef", s |-> 1, m |-> 0, d |-> 0]

Milestones == {"addDexLiquidity", "firstBurn", "secondBurn"}

\* this.liquidityMilestones
liquidityMilestones ==
  [addDexLiquidity |-> Dec(69000, 0),
   firstBurn       |-> Dec(100000, 0),
   secondBurn      |-> Dec(1000000, 0)]

\* this.burnPercentages
burnPercentages ==
  [firstBurn |-> Dec(1, 1), secondBurn |-> Dec(5, 2)]

\* calculateInitialPoolBalance: initialSupply * initialPrice * reserveRatio
calculateInitialPoolBalance(initialSupply_, initialPrice_, reserveRatio_) ==
  Times(Times(initialSupply_, initialPrice_), reserveRatio_)

\* getCurrentPrice: poolBalance / (currentSupply * reserveRatio)
getCurrentPrice(this) ==
  Div(this.poolBalance, Times(this.currentSupply, this.reserveRatio))

\* getMarketCap: currentSupply * getCurrentPrice()
getMarketCap(this) == Times(this.currentSupply, getCurrentPrice(this))

\* calculatenewSupply:
\*   currentSupply * (newPoolBalance / poolBalance) ^ (1 / reserveRatio)
\* pow throws when 1 / reserveRatio is not an integer.
calculatenewSupply(this, newPoolBalance) ==
  LET exponent == Div(One, this.reserveRatio)
  IN IF PowThrows(exponent)
       THEN [err |-> "ExponentNotInteger", value |-> Undef]
       ELSE [err |-> "none",
             value |-> Times(this.currentSupply,
                             Pow(Div(newPoolBalance, this.poolBalance), exponent))]

\* calculatePoolBalance: poolBalance * (supply / currentSupply) ^ reserveRatio
\* pow throws when reserveRatio is not an integer.
calculatePoolBalance(this, supply) ==
  IF PowThrows(this.reserveRatio)
    THEN [err |-> "ExponentNotInteger", value |-> Undef]
    ELSE [err |-> "none",
          value |-> Times(this.poolBalance,
                          Pow(Div(supply, this.currentSupply), this.reserveRatio))]

\* calculateBuyTokens(baseAmount): the buy quote.  No validation of
\* baseAmount; newPrice is the price of the state before the trade.
calculateBuyTokens(this, baseAmount) ==
  LET feeAmount          == Times(baseAmount, this.fee)
      baseAmountAfterFee == Minus(baseAmount, feeAmount)
      newPoolBalance     == Plus(this.poolBalance, baseAmountAfterFee)
      newSupply          == calculatenewSupply(this, newPoolBalance)
  IN IF newSupply.err # "none"
       THEN [err |-> newSupply.err, tokensReceived |-> Undef,
             fee |-> Undef, newPrice |-> Undef]
       ELSE [err |-> "none",
             tokensReceived |-> Minus(newSupply.value, this.currentSupply),
             fee |-> feeAmount,
             newPrice |-> Div(this.poolBalance,
                              Times(this.currentSupply, this.reserveRatio))]

\* Mutant of calculateSellTokens: the balance check is missing.
calculateSellTokens_NoBalanceCheck(this, tokenAmount) ==
  LET newSupply      == Minus(this.currentSupply, tokenAmount)
      newPoolBalance == calculatePoolBalance(this, newSupply)
  IN IF newPoolBalance.err # "none"
       THEN [err |-> newPoolBalance.err, baseReceived |-> Undef,
             fee |-> Undef, newPrice |-> Undef]
       ELSE LET baseAmountBeforeFee ==
                  Minus(this.poolBalance, newPoolBalance.value)
                feeAmount == Times(baseAmountBeforeFee, this.fee)
            IN [err |-> "none",
                baseReceived |-> Minus(baseAmountBeforeFee, feeAmount),
                fee |-> feeAmount,
                newPrice |-> Div(newPoolBalance.value,
                                 Times(newSupply, this.reserveRatio))]

\* calculateSellTokens(tokenAmount): the sell quote.  The only validation is
\* tokenAmount > currentSupply.
calculateSellTokens(this, tokenAmount) ==
  IF Gt(tokenAmount, this.currentSupply)
    THEN [err |-> "InsufficientBalance", baseReceived |-> Undef,
          fee |-> Undef, newPrice |-> Undef]
    ELSE LET newSupply      == Minus(this.currentSupply, tokenAmount)
             newPoolBalance == calculatePoolBalance(this, newSupply)
         IN IF newPoolBalance.err # "none"
              THEN [err |-> newPoolBalance.err, baseReceived |-> Undef,
                    fee |-> Undef, newPrice |-> Undef]
              ELSE LET baseAmountBeforeFee ==
                         Minus(this.poolBalance, newPoolBalance.value)
                       feeAmount == Times(baseAmountBeforeFee, this.fee)
                   IN [err |-> "none",
                       baseReceived |-> Minus(baseAmountBeforeFee, feeAmount),
                       fee |-> feeAmount,
                       newPrice |-> Div(newPoolBalance.value,
                                        Times(newSupply, this.reserveRatio))]

\* burnLiquidity(percentage): poolBalance -= poolBalance * percentage
burnLiquidity(this, percentage) ==
  [this EXCEPT !.poolBalance =
     Minus(this.poolBalance, Times(this.poolBalance, percentage))]

\* Mutant of checkMilestones: the market cap is read again after the first
\* burn, so the second threshold is tested against the burnt pool.
checkMilestones_CapReadAgain(this) ==
  LET marketCap == Times(this.currentSupply, getCurrentPrice(this))
      hitList   == Gte(marketCap, liquidityMilestones.addDexLiquidity)
      hitFirst  == Gte(marketCap, liquidityMilestones.firstBurn)
      this1     == IF hitFirst
                     THEN burnLiquidity(this, burnPercentages.firstBurn)
                     ELSE this
      hitSecond == Gte(Times(this1.currentSupply, getCurrentPrice(this1)),
                       liquidityMilestones.secondBurn)
      this2     == IF hitSecond
                     THEN burnLiquidity(this1, burnPercentages.secondBurn)
                     ELSE this1
  IN [this  |-> this2,
      taken |-> {m \in Milestones :
                   \/ m = "addDexLiquidity" /\ hitList
                   \/ m = "firstBurn" /\ hitFirst
                   \/ m = "secondBurn" /\ hitSecond}]

\* checkMilestones: marketCap is computed once; the three thresholds are
\* tested in turn, each against that marketCap, with no record of what was
\* done by earlier calls.  Returns the new fields and the milestones whose
\* branch was taken.
checkMilestones(this) ==
  LET marketCap == Times(this.currentSupply, getCurrentPrice(this))
      hitList   == Gte(marketCap, liquidityMilestones.addDexLiquidity)
      hitFirst  == Gte(marketCap, liquidityMilestones.firstBurn)
      hitSecond == Gte(marketCap, liquidityMilestones.secondBurn)
      this1     == IF hitFirst
                     THEN burnLiquidity(this, burnPercentages.firstBurn)
                     ELSE this
      this2     == IF hitSecond
                     THEN burnLiquidity(this1, burnPercentages.secondBurn)
                     ELSE this1
  IN [this  |-> this2,
      taken |-> {m \in Milestones :
                   \/ m = "addDexLiquidity" /\ hitList
                   \/ m = "firstBurn" /\ hitFirst
                   \/ m = "secondBurn" /\ hitSecond}]

\* Mutant of executeBuy: the returned tokensReceived and fee are quoted
\* again from the fields after the trade.
executeBuy_QuotedAfterTrade(this, baseAmount) ==
  LET result == calculateBuyTokens(this, baseAmount)
  IN IF result.err # "none"
       THEN [err |-> result.err, this |-> this, out |-> Undef, fee |-> Undef,
             newPrice |-> Undef, taken |-> {}, tradeCap |-> Undef]
       ELSE LET traded ==
                  [this EXCEPT
                     !.poolBalance =
                        Plus(this.poolBalance, Minus(baseAmount, result.fee)),
                     !.currentSupply =
                        Plus(this.currentSupply, result.tokensReceived)]
                checked == checkMilestones(traded)
                again   == calculateBuyTokens(traded, baseAmount)
            IN [err |-> "none", this |-> checked.this,
                out |-> again.tokensReceived, fee |-> again.fee,
                newPrice |-> getCurrentPrice(checked.this),
                taken |-> checked.taken, tradeCap |-> getMarketCap(traded)]

\* executeBuy(baseAmount).  tradeCap is the market cap of the state after
\* the trade and before the milestone check.
executeBuy(this, baseAmount) ==
  LET result == calculateBuyTokens(this, baseAmount)
  IN IF result.err # "none"
       THEN [err |-> result.err, this |-> this, out |-> Undef, fee |-> Undef,
             newPrice |-> Undef, taken |-> {}, tradeCap |-> Undef]
       ELSE LET traded ==
                  [this EXCEPT
                     !.poolBalance =
                        Plus(this.poolBalance, Minus(baseAmount, result.fee)),
                     !.currentSupply =
                        Plus(this.currentSupply, result.tokensReceived)]
                checked == checkMilestones(traded)
            IN [err |-> "none", this |-> checked.this,
                out |-> result.tokensReceived, fee |-> result.fee,
                newPrice |-> getCurrentPrice(checked.this),
                taken |-> checked.taken, tradeCap |-> getMarketCap(traded)]

\* executeSell(tokenAmount).  No milestone check.
executeSell(this, tokenAmount) ==
  LET result == calculateSellTokens(this, tokenAmount)
  IN IF result.err # "none"
       THEN [err |-> result.err, this |-> this, out |-> Undef, fee |-> Undef,
             newPrice |-> Undef, taken |-> {}, tradeCap |-> Undef]
       ELSE LET traded ==
                  [this EXCEPT
                     !.currentSupply = Minus(this.currentSupply, tokenAmount),
                     !.poolBalance =
                        Minus(this.poolBalance,
                              Plus(result.baseReceived, result.fee))]
            IN [err |-> "none", this |-> traded,
                out |-> result.baseReceived, fee |-> result.fee,
                newPrice |-> getCurrentPrice(traded),
                taken |-> {}, tradeCap |-> getMarketCap(traded)]

(***************************************************************************)
(* State.                                                                  *)
(*   initialSupply .. poolBalance: the instance's fields.                  *)
(*   taken: per milestone, how many times its branch of checkMilestones    *)
(*          has been taken on this instance (observation).                 *)
(*   last, prev: the last call and the one before it: operation, argument, *)
(*          outcome, returned values, the milestones taken during it, the  *)
(*          market cap right after its trade, and the fields and taken     *)
(*          counts it started from (observation).                          *)
(*   nOps:  number of calls made.                                          *)
(***************************************************************************)
VARIABLES initialSupply, reserveRatio, initialPrice, fee,
          currentSupply, poolBalance, taken, last, prev, nOps

params == <<initialSupply, reserveRatio, initialPrice, fee>>

vars == <<initialSupply, reserveRatio, initialPrice, fee,
          currentSupply, poolBalance, taken, last, prev, nOps>>

\* The instance's fields read by the methods.
This ==
  [reserveRatio |-> reserveRatio, fee |-> fee,
   currentSupply |-> currentSupply, poolBalance |-> poolBalance]

NoCall ==
  [op |-> "none", amount |-> Undef, err |-> "none", out |-> Undef,
   fee |-> Undef, newPrice |-> Undef, taken |-> {}, tradeCap |-> Undef,
   preSupply |-> Undef, prePool |-> Undef,
   preTaken |-> [m \in Milestones |-> 0]]

\* Constructor arguments the model draws from: reserveRatio in (0, 1], fee in
\* [0, 1); currentSupply is Undef when the caller leaves it out.
\*   1: the curve starts far below every threshold, reserveRatio 1
\*   2: the same with reserveRatio 0.5
\*   3: the curve starts above the first-burn threshold (resumed curve)
\*   4: reserveRatio 0.4, whose inverse 2.5 is not an integer
Configs ==
  { [initialSupply |-> Dec(10, 0), reserveRatio |-> Dec(1, 0),
     initialPrice |-> Dec(1, 0), fee |-> Dec(1, 2), currentSupply |-> Undef],
    [initialSupply |-> Dec(10, 0), reserveRatio |-> Dec(5, 1),
     initialPrice |-> Dec(2, 0), fee |-> Dec(1, 2), currentSupply |-> Undef],
    [initialSupply |-> Dec(1000, 0), reserveRatio |-> Dec(1, 0),
     initialPrice |-> Dec(200, 0), fee |-> Dec(1, 2),
     currentSupply |-> Dec(100, 0)],
    [initialSupply |-> Dec(10, 0), reserveRatio |-> Dec(4, 1),
     initialPrice |-> Dec(1, 0), fee |-> Dec(1, 2), currentSupply |-> Undef] }

\* constructor(params)
Init ==
  \E c \in Configs :
    /\ initialSupply = c.initialSupply
    /\ reserveRatio = c.reserveRatio
    /\ initialPrice = c.initialPrice
    /\ fee = c.fee
    /\ currentSupply =
         (IF c.currentSupply = Undef THEN c.initialSupply ELSE c.currentSupply)
    /\ poolBalance =
         calculateInitialPoolBalance(c.initialSupply, c.initialPrice,
                                     c.reserveRatio)
    /\ taken = [m \in Milestones |-> 0]
    /\ last = NoCall
    /\ prev = NoCall
    /\ nOps = 0

\* Arguments of the calls.
BuyAmounts == {Dec(100, 0), Dec(110000, 0), Dec(1100000, 0)}

\* One token, the whole supply, one token more than the supply, and what the
\* last buy returned.
SellAmounts ==
  {Dec(1, 0)}
    \cup (IF IsFinite(currentSupply)
            THEN {currentSupply, Plus(currentSupply, One)} ELSE {})
    \cup (IF last.op = "executeBuy" /\ last.err = "none" /\ IsFinite(last.out)
            THEN {last.out} ELSE {})

NonPositiveAmounts == {Zero(1), Negated(Dec(5, 0))}

Representable(r) ==
  /\ r.this.currentSupply.k # "ovf"
  /\ r.this.poolBalance.k # "ovf"
  /\ r.out.k # "ovf"
  /\ r.fee.k # "ovf"
  /\ r.newPrice.k # "ovf"
  /\ r.tradeCap.k # "ovf"

\* The record of a call that returned r.
CallRecord(op, amount, r) ==
  [op |-> op, amount |-> amount, err |-> r.err, out |-> r.out,
   fee |-> r.fee, newPrice |-> r.newPrice, taken |-> r.taken,
   tradeCap |-> r.tradeCap, preSupply |-> currentSupply,
   prePool |-> poolBalance, preTaken |-> taken]

\* The effect of a call that returned r: the fields become r.this.
Called(op, amount, r) ==
  /\ amount.k # "ovf"
  /\ Representable(r)
  /\ currentSupply' = r.this.currentSupply
  /\ poolBalance' = r.this.poolBalance
  /\ taken' = [m \in Milestones |->
                 IF m \in r.taken THEN taken[m] + 1 ELSE taken[m]]
  /\ last' = CallRecord(op, amount, r)
  /\ prev' = last
  /\ nOps' = nOps + 1
  /\ UNCHANGED params

\* A quote: the method's result with the fields untouched.
Quoted(q, out) ==
  [err |-> q.err, this |-> This, out |-> out, fee |-> q.fee,
   newPrice |-> q.newPrice, taken |-> {}, tradeCap |-> Undef]

\* A caller asks for a buy quote.
QuoteBuy(amount) ==
  /\ nOps < MaxOps
  /\ Called("calculateBuyTokens", amount,
            Quoted(calculateBuyTokens(This, amount),
                   calculateBuyTokens(This, amount).tokensReceived))

\* A caller asks for a sell quote.
QuoteSell(amount) ==
  /\ nOps < MaxOps
  /\ Called("calculateSellTokens", amount,
            Quoted(calculateSellTokens(This, amount),
                   calculateSellTokens(This, amount).baseReceived))

ExecuteBuy(amount) ==
  /\ nOps < MaxOps
  /\ Called("executeBuy", amount, executeBuy(This, amount))

ExecuteSell(amount) ==
  /\ nOps < MaxOps
  /\ Called("executeSell", amount, executeSell(This, amount))

Positive(S) == {a \in S : Gt(a, Zero(1))}

\* Calls with positive arguments.
Next ==
  \/ \E a \in BuyAmounts : QuoteBuy(a)
  \/ \E a \in Positive(SellAmounts) : QuoteSell(a)
  \/ \E a \in BuyAmounts : ExecuteBuy(a)
  \/ \E a \in Positive(SellAmounts) : ExecuteSell(a)

Spec == Init /\ [][Next]_vars

\* Calls with any numeric argument.
NextAny ==
  \/ \E a \in BuyAmounts \cup NonPositiveAmounts : QuoteBuy(a)
  \/ \E a \in SellAmounts \cup NonPositiveAmounts : QuoteSell(a)
  \/ \E a \in BuyAmounts \cup NonPositiveAmounts : ExecuteBuy(a)
  \/ \E a \in SellAmounts \cup NonPositiveAmounts : ExecuteSell(a)

SpecAny == Init /\ [][NextAny]_vars

(***************************************************************************)
(* Properties.                                                             *)
(***************************************************************************)
Executes == {"executeBuy", "executeSell"}

Burns == {"firstBurn", "secondBurn"}

\* The fields the last call started from.
Before ==
  [reserveRatio |-> reserveRatio, fee |-> fee,
   currentSupply |-> last.preSupply, poolBalance |-> last.prePool]

\* C1: over any sequence of executeBuy and executeSell calls on one instance
\* each milestone fires at most once: once the first-burn (resp. second-burn)
\* milestone has reduced poolBalance, no later call reduces poolBalance for
\* that milestone again.  (Stated for the two burns, whose firing changes
\* poolBalance; the listing branch of checkMilestones is empty.)
C1_EachBurnFiresAtMostOnce == \A m \in Burns : taken[m] <= 1

\* C2: a sell quote or execution of more tokens than currentSupply fails
\* with the insufficient-balance error and leaves currentSupply, poolBalance
\* and the milestone state as they were before the call.
C2_OversellRejectedStateUnchanged ==
  (/\ last.op \in {"executeSell", "calculateSellTokens"}
   /\ Gt(last.amount, last.preSupply))
  => /\ last.err = "InsufficientBalance"
     /\ currentSupply = last.preSupply
     /\ poolBalance = last.prePool
     /\ taken = last.preTaken

\* C2 witness: after an earlier successful buy, executeSell of more than the
\* supply has been rejected.
C2_Witness ==
  /\ last.op = "executeSell"
  /\ Gt(last.amount, last.preSupply)
  /\ last.err = "InsufficientBalance"
  /\ prev.op = "executeBuy"
  /\ prev.err = "none"

\* C3: in every state reached by successful executeBuy(amount > 0) and
\* executeSell(0 < amount <= currentSupply) calls, burns included,
\* currentSupply >= 0 and poolBalance >= 0.
C3_SupplyAndPoolNeverNegative ==
  /\ Gte(currentSupply, Zero(1))
  /\ Gte(poolBalance, Zero(1))

\* C4: executeBuy(amount > 0) immediately followed by executeSell of exactly
\* the tokensReceived it returned succeeds and pays out baseReceived <= amount.
C4_BuyThenSellReturnsNoMore ==
  (/\ last.op = "executeSell"
   /\ prev.op = "executeBuy"
   /\ prev.err = "none"
   /\ last.amount = prev.out)
  => /\ last.err = "none"
     /\ Lte(last.out, prev.amount)

\* C5: calculateBuyTokens(amount) immediately followed by executeBuy(amount)
\* returns the same tokensReceived and the same fee as the quote (or fails
\* the same way), and the quote itself changes neither currentSupply nor
\* poolBalance.
C5_QuoteThenExecuteAgree ==
  /\ (/\ last.op = "executeBuy"
      /\ prev.op = "calculateBuyTokens"
      /\ prev.amount = last.amount)
     => /\ last.err = prev.err
        /\ last.out = prev.out
        /\ last.fee = prev.fee
  /\ last.op = "calculateBuyTokens"
     => /\ currentSupply = last.preSupply
        /\ poolBalance = last.prePool

\* C5 witness: on a curve that has already traded, a buy was quoted and then
\* executed with the same amount, and the execution fired a burn.
C5_Witness ==
  /\ last.op = "executeBuy"
  /\ last.err = "none"
  /\ prev.op = "calculateBuyTokens"
  /\ prev.amount = last.amount
  /\ prev.out = last.out
  /\ "firstBurn" \in last.taken
  /\ nOps >= 3

\* C6: every quote or execute call with a non-positive amount is rejected
\* with an error and leaves currentSupply and poolBalance unchanged.
C6_NonPositiveAmountRejected ==
  (/\ last.op # "none"
   /\ Lte(last.amount, Zero(1)))
  => /\ last.err # "none"
     /\ currentSupply = last.preSupply
     /\ poolBalance = last.prePool

\* C7: when an execute call (executeSell as well as executeBuy) returns, no
\* milestone whose threshold is at or below the market cap of the post-trade
\* state is left without having fired.
C7_MilestonesEvaluatedAfterEveryExecute ==
  (/\ last.op \in Executes
   /\ last.err = "none")
  => \A m \in Milestones :
       Gte(last.tradeCap, liquidityMilestones[m]) => taken[m] >= 1

\* C8: one executeBuy that takes the market cap from below the listing
\* threshold to at or above the second-burn threshold takes all three
\* milestone branches in that call, changes currentSupply by the tokens
\* bought only, and leaves poolBalance at
\*   (poolBalance before + amount - fee) * (1 - 0.1) * (1 - 0.05).
C8_AllMilestonesInOneBuy ==
  (/\ last.op = "executeBuy"
   /\ last.err = "none"
   /\ Lt(getMarketCap(Before), liquidityMilestones.addDexLiquidity)
   /\ Gte(last.tradeCap, liquidityMilestones.secondBurn))
  => /\ last.taken = Milestones
     /\ taken = [m \in Milestones |-> last.preTaken[m] + 1]
     /\ currentSupply = Plus(last.preSupply, last.out)
     /\ poolBalance =
          Times(Times(Plus(last.prePool, Minus(last.amount, last.fee)),
                      Minus(One, burnPercentages.firstBurn)),
                Minus(One, burnPercentages.secondBurn))

\* C8 witness: such a buy has happened and both burns reduced the pool.
C8_Witness ==
  /\ last.op = "executeBuy"
  /\ last.err = "none"
  /\ Lt(getMarketCap(Before), liquidityMilestones.addDexLiquidity)
  /\ Gte(last.tradeCap, liquidityMilestones.secondBurn)
  /\ last.taken = Milestones
  /\ Lt(poolBalance, Plus(last.prePool, Minus(last.amount, last.fee)))

\* C9: with currentSupply > 0, an executeBuy(amount > 0) that fires no burn
\* leaves the price at or above its value before the buy, and an
\* executeSell(0 < amount < currentSupply) leaves it at or below its value
\* before the sell.
C9_PriceFollowsDemand ==
  /\ (/\ last.op = "executeBuy"
      /\ last.err = "none"
      /\ Gt(last.preSupply, Zero(1))
      /\ last.taken \cap Burns = {})
     => Gte(last.newPrice, getCurrentPrice(Before))
  /\ (/\ last.op = "executeSell"
      /\ last.err = "none"
      /\ Gt(last.preSupply, Zero(1))
      /\ Lt(last.amount, last.preSupply))
     => Lte(last.newPrice, getCurrentPrice(Before))

\* C10: no sequence of successful executeBuy and executeSell calls reaches a
\* state with currentSupply = 0 or poolBalance = 0.
C10_SupplyAndPoolNeverZero ==
  /\ ~IsZero(currentSupply)
  /\ ~IsZero(poolBalance)

====
